---- MODULE Spec2Model ----
(***************************************************************************)
(* Model of src/lib.rs of the "browsers" URL router: the opening-rule      *)
(* resolver, the visible/hidden profile sequences with hide / restore /    *)
(* move, and the serial message loop handle_messages_to_main.              *)
(*                                                                         *)
(* Profile unique ids are modelled as the integers 1..NumProfiles (the     *)
(* code uses "<executable>#<profile>[#<container>]" strings and only ever  *)
(* compares them for equality); NumProfiles + 1 names no discovered         *)
(* profile.  Option<T> is a sequence of length 0 (None) or 1 (Some).       *)
(***************************************************************************)
EXTENDS Integers, Sequences, FiniteSets, TLC

\* ------------------------------------------------------------------ bounds
\* number of discovered profiles
NumProfiles == 3
\* longest opening-rule list of the resolver specification
MaxRules == 2

\* ----------------------------------------------------------- Option, Vec
None == <<>>
Some(x) == <<x>>
is_some(o) == Len(o) = 1
is_none(o) == Len(o) = 0
unwrap(o) == o[1]

Range(s) == {s[i] : i \in 1..Len(s)}
NoDup(s) == \A i, j \in 1..Len(s) : i # j => s[i] # s[j]

\* Iterator::position: index (0-based) of the first element satisfying the
\* closure, which is given as the set of the values it accepts
position(s, accepted) ==
    IF \E i \in 1..Len(s) : s[i] \in accepted
    THEN Some((CHOOSE i \in 1..Len(s) :
                  s[i] \in accepted /\ \A j \in 1..(i - 1) : s[j] \notin accepted) - 1)
    ELSE None

\* Vec::remove(index), index 0-based
remove(s, index) ==
    [k \in 1..(Len(s) - 1) |-> IF k <= index THEN s[k] ELSE s[k + 1]]

\* Vec::push
push(s, e) == Append(s, e)

\* Iterator::filter(..).collect(), and Vec::retain: the elements the closure
\* accepts, in order
filter(s, accepted) == SelectSeq(s, LAMBDA e : e \in accepted)

\* slice[from..to].rotate_left(1), 0-based half-open range
rotate_left_1(s, from, to) ==
    [k \in 1..Len(s) |->
        IF k < from + 1 \/ k > to THEN s[k]
        ELSE IF k = to THEN s[from + 1] ELSE s[k + 1]]

\* slice[from..to].rotate_right(1), 0-based half-open range
rotate_right_1(s, from, to) ==
    [k \in 1..Len(s) |->
        IF k < from + 1 \/ k > to THEN s[k]
        ELSE IF k = from + 1 THEN s[to] ELSE s[k - 1]]

\* slice::sort_by_key: a stable sort by the key function key[element]
sort_by_key(s, key) ==
    LET n == Len(s)
        before(i) == Cardinality({j \in 1..n :
                        \/ key[s[j]] < key[s[i]]
                        \/ key[s[j]] = key[s[i]] /\ j < i})
    IN [k \in 1..n |-> s[CHOOSE i \in 1..n : before(i) = k - 1]]

\* ------------------------------------------------------ discovered profiles
ProfileIds == 1..NumProfiles
\* an id that names no discovered profile, an app id that names no app
UnknownId == NumProfiles + 1
UnknownApp == NumProfiles + 1

\* discovery order of the installed profiles (apps in order, profiles within)
installed_profiles == [k \in 1..NumProfiles |-> k]

\* CommonBrowserProfile::get_unique_app_id: profiles 1 and 2 share app 1,
\* every later profile is the only profile of its app
get_unique_app_id(p) == IF p <= 2 THEN 1 ELSE p - 1
AppIds == {get_unique_app_id(p) : p \in ProfileIds}

\* number of the profile's own restricted-url matchers
profile_restricted_url_matchers(p) == IF p = 2 THEN 1 ELSE 0

\* number of the application's restricted-hostname matchers
app_restricted_hostname_matchers(a) == IF a = 3 THEN 1 ELSE 0

get_restricted_url_matchers(p) ==
    IF profile_restricted_url_matchers(p) # 0
    THEN profile_restricted_url_matchers(p)
    ELSE app_restricted_hostname_matchers(get_unique_app_id(p))

has_priority_ordering(p) == get_restricted_url_matchers(p) # 0

\* ------------------------------------------------------------------- sort
\* mutant of sort_browser_profiles: the pass by ranking is left out
sort_browser_profiles_priority_only(visible, profile_order) ==
    LET priority_key == [p \in Range(visible) |->
            IF ~has_priority_ordering(p) THEN 1 ELSE 0]
    IN sort_by_key(visible, priority_key)

sort_browser_profiles(visible, profile_order) ==
    LET unordered_index == Len(profile_order)
        order_key == [p \in Range(visible) |->
            LET order_maybe == position(profile_order, {p})
            IN IF is_some(order_maybe) THEN unwrap(order_maybe)
               ELSE unordered_index]
        \* the key is the bool !has_priority_ordering(), false < true
        priority_key == [p \in Range(visible) |->
            IF ~has_priority_ordering(p) THEN 1 ELSE 0]
    IN sort_by_key(sort_by_key(visible, order_key), priority_key)

\* ----------------------------------------------------------------- Config
\* The persisted configuration (utils::Config): the hidden application ids,
\* the hidden profile ids and the explicit ranking of visible profile ids.
Config_hide_profile(cfg, profile_id) ==
    [cfg EXCEPT !.hidden_profiles = @ \cup {profile_id}]

Config_hide_all_profiles(cfg, to_hide) ==
    [cfg EXCEPT !.hidden_profiles = @ \cup Range(to_hide)]

Config_restore_profile(cfg, profile_id) ==
    [cfg EXCEPT !.hidden_profiles = @ \ {profile_id}]

Config_set_profile_order(cfg, profile_order) ==
    [cfg EXCEPT !.profile_order = profile_order]

\* ------------------------------------------------ generate_all_browser_profiles
\* mutant of generate_all_browser_profiles: the hidden-application set is
\* not consulted
generate_all_browser_profiles_hidden_apps_ignored(cfg, installed) ==
    LET is_hidden == {p \in Range(installed) : p \in cfg.hidden_profiles}
    IN [visible |-> sort_browser_profiles(
                        filter(installed, Range(installed) \ is_hidden),
                        cfg.profile_order),
        hidden  |-> filter(installed, is_hidden)]

generate_all_browser_profiles(cfg, installed) ==
    LET is_hidden == {p \in Range(installed) :
                         \/ get_unique_app_id(p) \in cfg.hidden_apps
                         \/ p \in cfg.hidden_profiles}
    IN [visible |-> sort_browser_profiles(
                        filter(installed, Range(installed) \ is_hidden),
                        cfg.profile_order),
        hidden  |-> filter(installed, is_hidden)]

\* --------------------------------------------------------------- handlers
\* The handlers of handle_messages_to_main as functions of the loop's state
\* st = [visible, hidden, config, ui]: the two profile sequences, the
\* persisted configuration and the visible list last sent to the UI.

\* mutant of hide_all_profiles: only the first visible profile of the
\* application is hidden
hide_all_profiles_first_only(st, app_id) ==
    LET of_app == {p \in Range(st.visible) : get_unique_app_id(p) = app_id}
        first == IF of_app = {} THEN {}
                 ELSE {st.visible[unwrap(position(st.visible, of_app)) + 1]}
        to_hide == filter(st.visible, first)
        visible == filter(st.visible, Range(st.visible) \ first)
    IN [visible |-> visible,
        hidden  |-> st.hidden \o to_hide,
        config  |-> Config_hide_all_profiles(st.config, to_hide),
        ui      |-> visible]

\* MessageToMain::HideAllProfiles(app_id)
hide_all_profiles(st, app_id) ==
    LET of_app == {p \in Range(st.visible) : get_unique_app_id(p) = app_id}
        to_hide == filter(st.visible, of_app)
        visible == filter(st.visible, Range(st.visible) \ of_app)
    IN [visible |-> visible,
        hidden  |-> st.hidden \o to_hide,
        config  |-> Config_hide_all_profiles(st.config, to_hide),
        ui      |-> visible]

\* mutant of hide_app_profile: the removed profile is not pushed to hidden
hide_app_profile_lost(st, unique_id) ==
    LET config == Config_hide_profile(st.config, unique_id)
        visible_profile_index_maybe == position(st.visible, {unique_id})
    IN IF is_some(visible_profile_index_maybe)
       THEN LET visible == remove(st.visible, unwrap(visible_profile_index_maybe))
            IN [visible |-> visible, hidden |-> st.hidden,
                config |-> config, ui |-> visible]
       ELSE [st EXCEPT !.config = config]

\* mutant of hide_app_profile: the hidden profile is put before the profiles
\* hidden earlier
hide_app_profile_front(st, unique_id) ==
    LET config == Config_hide_profile(st.config, unique_id)
        visible_profile_index_maybe == position(st.visible, {unique_id})
    IN IF is_some(visible_profile_index_maybe)
       THEN LET visible_profile_index == unwrap(visible_profile_index_maybe)
                visible == remove(st.visible, visible_profile_index)
            IN [visible |-> visible,
                hidden  |-> <<st.visible[visible_profile_index + 1]>> \o st.hidden,
                config  |-> config,
                ui      |-> visible]
       ELSE [st EXCEPT !.config = config]

\* MessageToMain::HideAppProfile(unique_id)
hide_app_profile(st, unique_id) ==
    LET config == Config_hide_profile(st.config, unique_id)
        visible_profile_index_maybe == position(st.visible, {unique_id})
    IN IF is_some(visible_profile_index_maybe)
       THEN LET visible_profile_index == unwrap(visible_profile_index_maybe)
                visible == remove(st.visible, visible_profile_index)
            IN [visible |-> visible,
                hidden  |-> push(st.hidden, st.visible[visible_profile_index + 1]),
                config  |-> config,
                ui      |-> visible]
       ELSE [st EXCEPT !.config = config]

\* mutant of restore_app_profile: the restored profile stays where it was
\* pushed, the visible sequence is not sorted again
restore_app_profile_unsorted(st, unique_id) ==
    LET config == Config_restore_profile(st.config, unique_id)
        hidden_profile_index_maybe == position(st.hidden, {unique_id})
    IN IF is_some(hidden_profile_index_maybe)
       THEN LET hidden_profile_index == unwrap(hidden_profile_index_maybe)
                visible == push(st.visible, st.hidden[hidden_profile_index + 1])
            IN [visible |-> visible,
                hidden  |-> remove(st.hidden, hidden_profile_index),
                config  |-> config,
                ui      |-> visible]
       ELSE [st EXCEPT !.config = config]

\* MessageToMain::RestoreAppProfile(unique_id)
restore_app_profile(st, unique_id) ==
    LET config == Config_restore_profile(st.config, unique_id)
        profile_order == config.profile_order
        hidden_profile_index_maybe == position(st.hidden, {unique_id})
    IN IF is_some(hidden_profile_index_maybe)
       THEN LET hidden_profile_index == unwrap(hidden_profile_index_maybe)
                visible == sort_browser_profiles(
                               push(st.visible, st.hidden[hidden_profile_index + 1]),
                               profile_order)
            IN [visible |-> visible,
                hidden  |-> remove(st.hidden, hidden_profile_index),
                config  |-> config,
                ui      |-> visible]
       ELSE [st EXCEPT !.config = config]

MoveTo == {"UP", "DOWN", "TOP", "BOTTOM"}

\* the closure |b| !b.has_priority_ordering() over the profiles of a sequence
orderable(visible) == {b \in Range(visible) : ~has_priority_ordering(b)}

\* mutant of move_proceeds: TOP returns early only before the first orderable
\* profile, not on it
move_proceeds_top_on_first(visible, unique_id, move_to) ==
    LET visible_profile_index_maybe == position(visible, {unique_id})
        first_orderable_item_index_maybe == position(visible, orderable(visible))
    IN /\ is_some(visible_profile_index_maybe)
       /\ is_some(first_orderable_item_index_maybe)
       /\ CASE move_to = "UP" ->
                 ~(unwrap(visible_profile_index_maybe)
                      <= unwrap(first_orderable_item_index_maybe))
            [] move_to = "TOP" ->
                 ~(unwrap(visible_profile_index_maybe)
                      < unwrap(first_orderable_item_index_maybe))
            [] OTHER ->
                 ~(unwrap(visible_profile_index_maybe) = Len(visible) - 1)

\* whether move_app_profile gets past its three early returns
move_proceeds(visible, unique_id, move_to) ==
    LET visible_profile_index_maybe == position(visible, {unique_id})
        first_orderable_item_index_maybe == position(visible, orderable(visible))
    IN /\ is_some(visible_profile_index_maybe)
       /\ is_some(first_orderable_item_index_maybe)
       /\ IF move_to \in {"UP", "TOP"}
          THEN ~(unwrap(visible_profile_index_maybe)
                    <= unwrap(first_orderable_item_index_maybe))
          ELSE ~(unwrap(visible_profile_index_maybe) = Len(visible) - 1)

\* step 1 of move_app_profile: the rotation of the visible sequence
move_rotate(visible, unique_id, move_to) ==
    LET visible_profile_index == unwrap(position(visible, {unique_id}))
        first_orderable_item_index == unwrap(position(visible, orderable(visible)))
    IN CASE move_to = "UP" ->
              rotate_left_1(visible, visible_profile_index - 1,
                            visible_profile_index + 1)
         [] move_to = "DOWN" ->
              rotate_right_1(visible, visible_profile_index,
                             visible_profile_index + 2)
         [] move_to = "TOP" ->
              rotate_right_1(visible, first_orderable_item_index,
                             visible_profile_index + 1)
         [] move_to = "BOTTOM" ->
              rotate_left_1(visible, visible_profile_index, Len(visible))

\* step 3 of move_app_profile: the ranking written to the configuration
profile_ids_sorted(visible) == filter(visible, orderable(visible))

\* MessageToMain::MoveAppProfile(unique_id, move_to)
move_app_profile(st, unique_id, move_to) ==
    IF ~move_proceeds(st.visible, unique_id, move_to)
    THEN st
    ELSE LET visible == move_rotate(st.visible, unique_id, move_to)
         IN [visible |-> visible,
             hidden  |-> st.hidden,
             config  |-> Config_set_profile_order(st.config,
                                                  profile_ids_sorted(visible)),
             ui      |-> visible]

\* ------------------------------------------------------------ URLs, globs
\* A URL string is modelled by what Url::from_str reads in it: an optional
\* scheme and the host's labels.  A pattern string is modelled by whether it
\* can be parsed and by its host labels ("*" is the wildcard label).
Urls ==
    { [scheme |-> None,          host |-> <<"a", "x", "com">>],
      [scheme |-> Some("https"), host |-> <<"a", "x", "com">>],
      [scheme |-> Some("https"), host |-> <<"y", "com">>] }

UrlPatterns ==
    { [well_formed |-> TRUE,  host |-> <<"*", "x", "com">>],
      [well_formed |-> FALSE, host |-> <<"*", "x", "com">>] }

\* Url::from_str: a string without a scheme is a relative URL without a base,
\* which is an error (None here); otherwise the parsed URL
Url_from_str(cleaned_url) ==
    IF is_none(cleaned_url.scheme) \/ Len(cleaned_url.host) = 0
    THEN None
    ELSE Some([scheme |-> unwrap(cleaned_url.scheme), host |-> cleaned_url.host])

\* url_rule::to_url_matcher(pattern).to_glob_matcher().url_matches(url)
glob_url_matches(url_pattern, given_url) ==
    /\ url_pattern.well_formed
    /\ Len(url_pattern.host) = Len(given_url.host)
    /\ \A i \in 1..Len(url_pattern.host) :
          url_pattern.host[i] = "*" \/ url_pattern.host[i] = given_url.host[i]

\* --------------------------------------------------------------- resolver
SourceApps == {"A", "B"}
SafariBundleId == "com.apple.Safari"

\* ProfileAndOptions values used as rule and default targets
Targets ==
    { [profile |-> 1,         incognito |-> FALSE],
      [profile |-> UnknownId, incognito |-> TRUE] }

OpeningRules ==
    [source_app  : {None, Some("A")},
     url_pattern : {None} \cup {Some(pat) : pat \in UrlPatterns},
     opener      : {None} \cup {Some(t) : t \in Targets}]

\* mutant of url_matches: the pattern is not consulted
url_matches_always(r, given_url) ==
    TRUE

\* mutant of url_matches: a rule without URL pattern matches no URL
url_matches_pattern_required(r, given_url) ==
    IF is_some(r.url_pattern)
    THEN glob_url_matches(unwrap(r.url_pattern), given_url)
    ELSE FALSE

\* OpeningRulesAndDefaultProfile::url_matches
url_matches(r, given_url) ==
    IF is_some(r.url_pattern)
    THEN glob_url_matches(unwrap(r.url_pattern), given_url)
    ELSE TRUE

\* mutant of source_app_matches: a request without source app passes a
\* rule's filter
source_app_matches_absent_passes(r, actual_source_app) ==
    IF is_some(r.source_app)
    THEN IF is_some(actual_source_app)
         THEN unwrap(r.source_app) = unwrap(actual_source_app)
         ELSE TRUE
    ELSE TRUE

\* OpeningRulesAndDefaultProfile::source_app_matches
source_app_matches(r, actual_source_app) ==
    IF is_some(r.source_app)
    THEN IF is_some(actual_source_app)
         THEN unwrap(r.source_app) = unwrap(actual_source_app)
         ELSE FALSE
    ELSE TRUE

\* mutant of rule_loop: the last rule for which both predicates hold wins
RECURSIVE rule_loop_last(_, _, _, _)
rule_loop_last(rules, i, given_url, source_app_maybe) ==
    IF i > Len(rules) THEN None
    ELSE LET r == rules[i]
             later == rule_loop_last(rules, i + 1, given_url, source_app_maybe)
         IN IF is_some(later) THEN later
            ELSE IF url_matches(r, given_url)
                    /\ source_app_matches(r, source_app_maybe)
                 THEN Some(r.opener)
                 ELSE None

\* the for-loop of get_rule_for_source_app_and_url from rule i on:
\* Some(opener) when a rule returns, None when the loop falls through
RECURSIVE rule_loop(_, _, _, _)
rule_loop(rules, i, given_url, source_app_maybe) ==
    IF i > Len(rules) THEN None
    ELSE LET r == rules[i]
             url_match == url_matches(r, given_url)
             source_app_match == source_app_matches(r, source_app_maybe)
         IN IF url_match /\ source_app_match
            THEN Some(r.opener)
            ELSE rule_loop(rules, i + 1, given_url, source_app_maybe)

\* mutant of get_rule_for_source_app_and_url: the default is never used
get_rule_without_default(rules, default, url_open_context) ==
    LET url_result == Url_from_str(url_open_context.cleaned_url)
    IN IF is_none(url_result) THEN None
       ELSE LET returned == rule_loop(rules, 1, unwrap(url_result),
                                      url_open_context.source_app_maybe)
            IN IF is_some(returned) THEN unwrap(returned) ELSE None

\* mutant of get_rule_for_source_app_and_url: an unparsable URL falls back
\* to the default
get_rule_default_on_error(rules, default, url_open_context) ==
    LET url_result == Url_from_str(url_open_context.cleaned_url)
    IN IF is_none(url_result) THEN default
       ELSE LET returned == rule_loop(rules, 1, unwrap(url_result),
                                      url_open_context.source_app_maybe)
            IN IF is_some(returned) THEN unwrap(returned)
               ELSE IF is_some(default) THEN default ELSE None

\* OpeningRulesAndDefaultProfile::get_rule_for_source_app_and_url
get_rule_for_source_app_and_url(rules, default, url_open_context) ==
    LET url_result == Url_from_str(url_open_context.cleaned_url)
    IN IF is_none(url_result) THEN None
       ELSE LET returned == rule_loop(rules, 1, unwrap(url_result),
                                      url_open_context.source_app_maybe)
            IN IF is_some(returned) THEN unwrap(returned)
               ELSE IF is_some(default) THEN default ELSE None

\* mutant of get_browser_profile_by_id: hidden profiles are not looked up
get_browser_profile_by_id_visible_only(visible, hidden, unique_id) ==
    LET visible_profile_maybe == position(visible, {unique_id})
    IN IF is_some(visible_profile_maybe)
       THEN Some(visible[unwrap(visible_profile_maybe) + 1])
       ELSE None

\* VisibleAndHiddenProfiles::get_browser_profile_by_id
get_browser_profile_by_id(visible, hidden, unique_id) ==
    LET visible_profile_maybe == position(visible, {unique_id})
        hidden_profile_maybe == position(hidden, {unique_id})
    IN IF is_some(visible_profile_maybe)
       THEN Some(visible[unwrap(visible_profile_maybe) + 1])
       ELSE IF is_some(hidden_profile_maybe)
            THEN Some(hidden[unwrap(hidden_profile_maybe) + 1])
            ELSE None

\* The process spawned by open_link_if_matching_rule and by the
\* LinkOpenedFromBundle handler: Some(launch) or None
dispatch(rules, default, visible, hidden, url_open_context) ==
    LET opening_profile_id_maybe ==
            get_rule_for_source_app_and_url(rules, default, url_open_context)
    IN IF is_some(opening_profile_id_maybe)
       THEN LET profile_and_options == unwrap(opening_profile_id_maybe)
                profile_maybe == get_browser_profile_by_id(
                                     visible, hidden, profile_and_options.profile)
            IN IF is_some(profile_maybe)
               THEN Some([profile   |-> unwrap(profile_maybe),
                          incognito |-> profile_and_options.incognito])
               ELSE None
       ELSE None

\* open_link_if_matching_rule's return value
open_link_if_matching_rule(rules, default, visible, hidden, url_open_context) ==
    is_some(dispatch(rules, default, visible, hidden, url_open_context))

\* ------------------------------------------------ platform command builder
MaxTemplateArgs == 2

\* the values cfg!(target_os = ...) is compiled for; "freebsd" stands for
\* every target without a branch
TargetOs == {"macos", "linux", "windows", "freebsd"}

\* what a stored command can hold after its program
TemplateArgs == {"--flag", "%u", "%U"}

RECURSIVE CommandsOfLen(_)
CommandsOfLen(n) ==
    IF n = 0 THEN {<<"app">>}
    ELSE {Append(c, a) : c \in CommandsOfLen(n - 1), a \in TemplateArgs}

\* BrowserCommon.command: the program followed by up to MaxTemplateArgs arguments
Commands == UNION {CommandsOfLen(n) : n \in 0..MaxTemplateArgs}

\* SupportedApp: the capability flags of a supported application
SupportedApps ==
    [url_as_first_arg   : BOOLEAN,
     supports_incognito : BOOLEAN,
     rewrites_url       : BOOLEAN]

AppUrl == "https://a.com"
RewrittenUrl == "https://a.com?profile"

get_app_id(supported_app) == "app.id"
is_url_as_first_arg(supported_app) == supported_app.url_as_first_arg
supports_incognito(supported_app) == supported_app.supports_incognito
get_incognito_args(supported_app) == <<"--incognito", "--new-window">>

get_profile_args(supported_app, profile_cli_arg_value) ==
    IF profile_cli_arg_value = "" THEN <<>>
    ELSE <<"--profile", profile_cli_arg_value>>

\* the application's URL-transform hook
get_transformed_url(supported_app, common_browser_profile, url) ==
    IF supported_app.rewrites_url THEN RewrittenUrl ELSE url

\* str::eq_ignore_ascii_case over the strings of the model
to_ascii_lowercase(str) == IF str = "%U" THEN "%u" ELSE str
eq_ignore_ascii_case(a, b) == to_ascii_lowercase(a) = to_ascii_lowercase(b)

replace_url_placeholder(command_arguments, app_url) ==
    [i \in 1..Len(command_arguments) |->
        IF eq_ignore_ascii_case(command_arguments[i], "%u")
        THEN app_url
        ELSE command_arguments[i]]

\* Command::new(program) followed by its arg / args calls
Command(program, args) == [program |-> program, args |-> args]

incognito_args_always(supported_app, incognito_mode) ==
    get_incognito_args(supported_app)

\* if incognito_mode && supports_incognito() { args(get_incognito_args()) }
incognito_args_if(supported_app, incognito_mode) ==
    IF incognito_mode /\ supports_incognito(supported_app)
    THEN get_incognito_args(supported_app)
    ELSE <<>>

create_command_macos_new_instance_unless(supported_app, profile_args, app_url, incognito_mode) ==
    Command("open",
        <<"-b", get_app_id(supported_app)>>
        \o (IF is_url_as_first_arg(supported_app)
            THEN <<app_url>> ELSE <<"-n">>)
        \o <<"--args">>
        \o profile_args
        \o incognito_args_if(supported_app, incognito_mode)
        \o (IF ~is_url_as_first_arg(supported_app) THEN <<app_url>> ELSE <<>>))

\* the branch cfg!(target_os = "macos")
create_command_macos(supported_app, profile_args, app_url, incognito_mode) ==
    Command("open",
        <<"-b", get_app_id(supported_app)>>
        \o (IF ~is_url_as_first_arg(supported_app)
            THEN <<app_url>> ELSE <<"-n">>)
        \o <<"--args">>
        \o profile_args
        \o incognito_args_if(supported_app, incognito_mode)
        \o (IF is_url_as_first_arg(supported_app) THEN <<app_url>> ELSE <<>>))

\* mutant of create_command_linux: the incognito arguments are added after
\* the stored command's arguments
create_command_linux_incognito_after(browser, profile_args, app_url, incognito_mode) ==
    LET main_command == Head(browser.command)
        command_arguments == Tail(browser.command)
        has_url_placeholder ==
            \E i \in 1..Len(command_arguments) :
                eq_ignore_ascii_case(command_arguments[i], "%u")
        arguments == IF has_url_placeholder
                     THEN replace_url_placeholder(command_arguments, app_url)
                     ELSE command_arguments
    IN Command(main_command,
           arguments
           \o incognito_args_if(browser.supported_app, incognito_mode)
           \o profile_args
           \o (IF ~has_url_placeholder THEN <<app_url>> ELSE <<>>))

create_command_linux_url_appended(browser, profile_args, app_url, incognito_mode) ==
    LET main_command == Head(browser.command)
        command_arguments == Tail(browser.command)
    IN Command(main_command,
           incognito_args_if(browser.supported_app, incognito_mode)
           \o replace_url_placeholder(command_arguments, app_url)
           \o profile_args
           \o <<app_url>>)

\* the branch cfg!(target_os = "linux")
create_command_linux(browser, profile_args, app_url, incognito_mode) ==
    LET main_command == Head(browser.command)
        command_arguments == Tail(browser.command)
        has_url_placeholder ==
            \E i \in 1..Len(command_arguments) :
                eq_ignore_ascii_case(command_arguments[i], "%u")
        arguments == IF has_url_placeholder
                     THEN replace_url_placeholder(command_arguments, app_url)
                     ELSE command_arguments
    IN Command(main_command,
           incognito_args_if(browser.supported_app, incognito_mode)
           \o arguments
           \o profile_args
           \o (IF ~has_url_placeholder THEN <<app_url>> ELSE <<>>))

\* mutant of create_command_windows: the incognito arguments come before the
\* profile arguments
create_command_windows_incognito_first(browser, profile_args, app_url, incognito_mode) ==
    LET main_command == Head(browser.command)
    IN Command(main_command,
           incognito_args_if(browser.supported_app, incognito_mode)
           \o profile_args
           \o <<app_url>>)

\* the branch cfg!(target_os = "windows")
create_command_windows(browser, profile_args, app_url, incognito_mode) ==
    LET main_command == Head(browser.command)
    IN Command(main_command,
           profile_args
           \o incognito_args_if(browser.supported_app, incognito_mode)
           \o <<app_url>>)

\* BrowserCommon::create_command; None stands for unimplemented!()
create_command(target_os, browser, common_browser_profile, url, incognito_mode) ==
    LET profile_cli_arg_value == common_browser_profile.profile_cli_arg_value
        profile_args == get_profile_args(browser.supported_app,
                                         profile_cli_arg_value)
        app_url == get_transformed_url(browser.supported_app,
                                       common_browser_profile, url)
    IN CASE target_os = "macos" ->
              Some(create_command_macos(browser.supported_app, profile_args,
                                        app_url, incognito_mode))
         [] target_os = "linux" ->
              Some(create_command_linux(browser, profile_args, app_url,
                                        incognito_mode))
         [] target_os = "windows" ->
              Some(create_command_windows(browser, profile_args, app_url,
                                          incognito_mode))
         [] OTHER -> None

\* the calls of create_command: every target, command, application,
\* profile argument and incognito choice
CommandRequests ==
    [target_os      : TargetOs,
     browser        : [command : Commands, supported_app : SupportedApps],
     common_browser_profile : [profile_cli_arg_value : {"", "Work"}],
     url            : {AppUrl},
     incognito_mode : BOOLEAN]

NoCommandRequest ==
    [target_os      |-> "freebsd",
     browser        |-> [command |-> <<"app">>,
                         supported_app |-> [url_as_first_arg   |-> FALSE,
                                            supports_incognito |-> FALSE,
                                            rewrites_url       |-> FALSE]],
     common_browser_profile |-> [profile_cli_arg_value |-> ""],
     url            |-> AppUrl,
     incognito_mode |-> FALSE]

\* ------------------------------------------------------------------ state
VARIABLES
    visible_browser_profiles,  \* VisibleAndHiddenProfiles.visible_browser_profiles
    hidden_browser_profiles,   \* VisibleAndHiddenProfiles.hidden_browser_profiles
    config,                    \* the configuration file (load_config / save_config)
    opening_rules,             \* OpeningRulesAndDefaultProfile.opening_rules
    default_profile,           \* OpeningRulesAndDefaultProfile.default_profile
    ui_browsers,               \* the list last sent with NEW_BROWSERS_RECEIVED
    status,                    \* "running", "panicked" (unwrap on None), "exited"
    last_msg,                  \* the message handled last
    request,                   \* the source app and URL of the last dispatch
    resolved,                  \* what rule resolution returned for it
    launched,                  \* the process the last message spawned, if any
    last_args,                 \* the id and direction the last message carried
    command_request,           \* the arguments of the last create_command call
    command                    \* the Command that call returned, if any

vars == <<visible_browser_profiles, hidden_browser_profiles, config,
          opening_rules, default_profile, ui_browsers, status, last_msg,
          request, resolved, launched, last_args, command_request, command>>

profile_vars == <<visible_browser_profiles, hidden_browser_profiles, config,
                  ui_browsers>>
rule_vars == <<opening_rules, default_profile>>
dispatch_vars == <<request, resolved, launched>>
command_vars == <<command_request, command>>

\* the loop's state as the record the handlers work on
State == [visible |-> visible_browser_profiles,
          hidden  |-> hidden_browser_profiles,
          config  |-> config,
          ui      |-> ui_browsers]

Become(st) ==
    /\ visible_browser_profiles' = st.visible
    /\ hidden_browser_profiles' = st.hidden
    /\ config' = st.config
    /\ ui_browsers' = st.ui

\* found: the lookup the handler starts with found its profile;
\* acted: the handler got past its early returns
Msg(kind, found, acted) == [kind |-> kind, found |-> found, acted |-> acted]

\* the payload of a profile message: a profile or application id and, for
\* MoveAppProfile, the direction
Args(id, move_to) == [id |-> id, move_to |-> move_to]
NoArgs == Args(UnknownId, "NONE")

\* the payload of SaveConfigRules and of SaveConfigDefaultOpener
Saved(payload) == [saved |-> payload]

NoRequest == [cleaned_url |-> CHOOSE u \in Urls : is_none(u.scheme),
              source_app_maybe |-> None]

\* a message that resolves nothing and spawns nothing
NoDispatch ==
    /\ request' = NoRequest
    /\ resolved' = None
    /\ launched' = None

\* ------------------------------------------------------------------- Init
\* rankings a configuration file can hold: ids without repetition
RECURSIVE Orders(_)
Orders(ids) ==
    {<<>>} \cup UNION {{<<p>> \o o : o \in Orders(ids \ {p})} : p \in ids}

PlainIds == {p \in ProfileIds : ~has_priority_ordering(p)}

InitConfigs ==
    [hidden_apps     : {{}, {2}},
     hidden_profiles : {{}, {UnknownId}},
     profile_order   : Orders(PlainIds)]

\* rule lists the settings dialog saves in the message-loop specification
LoopRuleLists ==
    { <<>>,
      <<[source_app |-> Some("A"), url_pattern |-> None,
         opener |-> Some([profile |-> UnknownId, incognito |-> TRUE])]>> }

LoopDefaults == {None, Some([profile |-> 1, incognito |-> FALSE])}

Init ==
    /\ config \in InitConfigs
    /\ LET generated == generate_all_browser_profiles(config, installed_profiles)
       IN /\ visible_browser_profiles = generated.visible
          /\ hidden_browser_profiles = generated.hidden
          /\ ui_browsers = generated.visible
    /\ opening_rules \in LoopRuleLists
    /\ default_profile \in LoopDefaults
    /\ status = "running"
    /\ last_msg = Msg("none", FALSE, FALSE)
    /\ request = NoRequest
    /\ resolved = None
    /\ launched = None
    /\ last_args = NoArgs
    /\ command_request = NoCommandRequest
    /\ command = None

\* ---------------------------------------------------------------- actions
\* what force_reload discovery can find at a Refresh: the same profiles, one
\* uninstalled, or one installed since the start
Rediscovered ==
    { installed_profiles,
      SubSeq(installed_profiles, 1, NumProfiles - 1),
      Append(installed_profiles, UnknownId) }

Refresh ==
    /\ status = "running"
    /\ last_args' = NoArgs
    /\ UNCHANGED command_vars
    /\ \E installed \in Rediscovered :
          ui_browsers' = generate_all_browser_profiles(config, installed).visible
    /\ last_msg' = Msg("Refresh", TRUE, TRUE)
    /\ NoDispatch
    /\ UNCHANGED <<visible_browser_profiles, hidden_browser_profiles, config,
                   rule_vars, status>>

\* OpenLink carries an index of the list the UI displays
OpenLink ==
    /\ status = "running"
    /\ last_args' = NoArgs
    /\ UNCHANGED command_vars
    /\ \E profile_index \in 0..(Len(ui_browsers) - 1), incognito_mode \in BOOLEAN :
          LET option == IF profile_index < Len(visible_browser_profiles)
                        THEN Some(visible_browser_profiles[profile_index + 1])
                        ELSE None
          IN IF is_none(option)
             THEN /\ status' = "panicked"
                  /\ launched' = None
                  /\ last_msg' = Msg("OpenLink", FALSE, FALSE)
             ELSE /\ status' = status
                  /\ launched' = Some([profile   |-> unwrap(option),
                                       incognito |-> incognito_mode])
                  /\ last_msg' = Msg("OpenLink", TRUE, TRUE)
    /\ request' = NoRequest
    /\ resolved' = None
    /\ UNCHANGED <<profile_vars, rule_vars>>

\* mutant of LinkOpenedFromBundle: a resolution that falls back to the
\* default target uses it up
LinkOpenedFromBundle_default_once ==
    /\ status = "running"
    /\ last_args' = NoArgs
    /\ UNCHANGED command_vars
    /\ \E from_bundle_id \in SourceApps \cup {SafariBundleId}, url \in Urls :
          LET url_open_context == [cleaned_url |-> url,
                                   source_app_maybe |-> Some(from_bundle_id)]
          IN /\ request' = url_open_context
             /\ IF from_bundle_id = SafariBundleId
                THEN /\ status' = "exited"
                     /\ last_msg' = Msg("LinkOpenedFromBundle", FALSE, FALSE)
                     /\ resolved' = None
                     /\ launched' = None
                     /\ default_profile' = default_profile
                ELSE /\ resolved' = get_rule_for_source_app_and_url(
                                        opening_rules, default_profile,
                                        url_open_context)
                     /\ launched' = dispatch(opening_rules, default_profile,
                                             visible_browser_profiles,
                                             hidden_browser_profiles,
                                             url_open_context)
                     /\ last_msg' = Msg("LinkOpenedFromBundle",
                                        is_some(launched'), TRUE)
                     /\ status' = status
                     /\ default_profile' =
                            IF resolved' = default_profile /\ is_some(resolved')
                            THEN None ELSE default_profile
    /\ UNCHANGED <<profile_vars, opening_rules>>

\* mutant of LinkOpenedFromBundle: a URL that cannot be parsed aborts the loop
LinkOpenedFromBundle_unparsable_aborts ==
    /\ status = "running"
    /\ last_args' = NoArgs
    /\ UNCHANGED command_vars
    /\ \E from_bundle_id \in SourceApps \cup {SafariBundleId}, url \in Urls :
          LET url_open_context == [cleaned_url |-> url,
                                   source_app_maybe |-> Some(from_bundle_id)]
          IN /\ request' = url_open_context
             /\ IF from_bundle_id = SafariBundleId
                THEN /\ status' = "exited"
                     /\ last_msg' = Msg("LinkOpenedFromBundle", FALSE, FALSE)
                     /\ resolved' = None
                     /\ launched' = None
                ELSE IF is_none(Url_from_str(url))
                THEN /\ status' = "panicked"
                     /\ last_msg' = Msg("LinkOpenedFromBundle", FALSE, FALSE)
                     /\ resolved' = None
                     /\ launched' = None
                ELSE /\ resolved' = get_rule_for_source_app_and_url(
                                        opening_rules, default_profile,
                                        url_open_context)
                     /\ launched' = dispatch(opening_rules, default_profile,
                                             visible_browser_profiles,
                                             hidden_browser_profiles,
                                             url_open_context)
                     /\ last_msg' = Msg("LinkOpenedFromBundle",
                                        is_some(launched'), TRUE)
                     /\ status' = status
    /\ UNCHANGED <<profile_vars, rule_vars>>

LinkOpenedFromBundle ==
    /\ status = "running"
    /\ last_args' = NoArgs
    /\ UNCHANGED command_vars
    /\ \E from_bundle_id \in SourceApps \cup {SafariBundleId}, url \in Urls :
          IF from_bundle_id = SafariBundleId
          THEN /\ status' = "exited"
               /\ last_msg' = Msg("LinkOpenedFromBundle", FALSE, FALSE)
               /\ request' = [cleaned_url |-> url,
                              source_app_maybe |-> Some(from_bundle_id)]
               /\ resolved' = None
               /\ launched' = None
          ELSE LET url_open_context == [cleaned_url |-> url,
                                        source_app_maybe |-> Some(from_bundle_id)]
               IN /\ request' = url_open_context
                  /\ resolved' = get_rule_for_source_app_and_url(
                                     opening_rules, default_profile, url_open_context)
                  /\ launched' = dispatch(opening_rules, default_profile,
                                          visible_browser_profiles,
                                          hidden_browser_profiles, url_open_context)
                  /\ last_msg' = Msg("LinkOpenedFromBundle",
                                     is_some(launched'), TRUE)
                  /\ status' = status
    /\ UNCHANGED <<profile_vars, rule_vars>>

HideAllProfiles ==
    /\ status = "running"
    /\ UNCHANGED command_vars
    /\ \E app_id \in AppIds \cup {UnknownApp} :
          /\ Become(hide_all_profiles(State, app_id))
          /\ last_args' = Args(app_id, "NONE")
          /\ last_msg' = Msg("HideAllProfiles", TRUE, TRUE)
    /\ NoDispatch
    /\ UNCHANGED <<rule_vars, status>>

HideAppProfile ==
    /\ status = "running"
    /\ UNCHANGED command_vars
    /\ \E unique_id \in ProfileIds \cup {UnknownId} :
          /\ Become(hide_app_profile(State, unique_id))
          /\ last_args' = Args(unique_id, "NONE")
          /\ last_msg' = Msg("HideAppProfile",
                             unique_id \in Range(visible_browser_profiles),
                             unique_id \in Range(visible_browser_profiles))
    /\ NoDispatch
    /\ UNCHANGED <<rule_vars, status>>

RestoreAppProfile ==
    /\ status = "running"
    /\ UNCHANGED command_vars
    /\ \E unique_id \in ProfileIds \cup {UnknownId} :
          /\ Become(restore_app_profile(State, unique_id))
          /\ last_args' = Args(unique_id, "NONE")
          /\ last_msg' = Msg("RestoreAppProfile",
                             unique_id \in Range(hidden_browser_profiles),
                             unique_id \in Range(hidden_browser_profiles))
    /\ NoDispatch
    /\ UNCHANGED <<rule_vars, status>>

MoveAppProfile ==
    /\ status = "running"
    /\ UNCHANGED command_vars
    /\ \E unique_id \in ProfileIds \cup {UnknownId}, move_to \in MoveTo :
          /\ Become(move_app_profile(State, unique_id, move_to))
          /\ last_args' = Args(unique_id, move_to)
          /\ last_msg' = Msg("MoveAppProfile",
                             unique_id \in Range(visible_browser_profiles),
                             move_proceeds(visible_browser_profiles,
                                           unique_id, move_to))
    /\ NoDispatch
    /\ UNCHANGED <<rule_vars, status>>

\* mutant of SaveConfigRulesOf: the loop's rule list gets the saved rules in
\* reverse order
SaveConfigRulesOf_reversed(lists) ==
    /\ status = "running"
    /\ UNCHANGED command_vars
    /\ \E new_rules \in lists :
          /\ opening_rules' = [i \in 1..Len(new_rules) |->
                                  new_rules[Len(new_rules) + 1 - i]]
          /\ last_args' = Saved(new_rules)
    /\ last_msg' = Msg("SaveConfigRules", TRUE, TRUE)
    /\ NoDispatch
    /\ UNCHANGED <<profile_vars, default_profile, status>>

\* MessageToMain::SaveConfigRules(ui_rules), ui_rules being one of lists
SaveConfigRulesOf(lists) ==
    /\ status = "running"
    /\ UNCHANGED command_vars
    /\ \E new_rules \in lists :
          /\ opening_rules' = new_rules
          /\ last_args' = Saved(new_rules)
    /\ last_msg' = Msg("SaveConfigRules", TRUE, TRUE)
    /\ NoDispatch
    /\ UNCHANGED <<profile_vars, default_profile, status>>

SaveConfigRules == SaveConfigRulesOf(LoopRuleLists)

SaveConfigDefaultOpener ==
    /\ status = "running"
    /\ UNCHANGED command_vars
    /\ \E new_default_profile \in LoopDefaults :
          /\ default_profile' = new_default_profile
          /\ last_args' = Saved(new_default_profile)
    /\ last_msg' = Msg("SaveConfigDefaultOpener", TRUE, TRUE)
    /\ NoDispatch
    /\ UNCHANGED <<profile_vars, opening_rules, status>>

Next ==
    \/ Refresh
    \/ OpenLink
    \/ LinkOpenedFromBundle
    \/ HideAllProfiles
    \/ HideAppProfile
    \/ RestoreAppProfile
    \/ MoveAppProfile
    \/ SaveConfigRules
    \/ SaveConfigDefaultOpener

Spec == Init /\ [][Next]_vars

\* ------------------------------------- the profile messages' specification
\* The message loop fed only HideAllProfiles, HideAppProfile,
\* RestoreAppProfile and MoveAppProfile messages, from every initial
\* configuration, with no opening rules and no default.
InitProfiles ==
    /\ Init
    /\ opening_rules = <<>>
    /\ default_profile = None

NextProfiles ==
    \/ HideAllProfiles
    \/ HideAppProfile
    \/ RestoreAppProfile
    \/ MoveAppProfile

SpecProfiles == InitProfiles /\ [][NextProfiles]_vars

\* ------------------------------------------- the resolver's specification
\* Rule resolution and dispatch over every rule list of up to MaxRules rules,
\* every default target and every request; the profile sequences stay as
\* generated.
RECURSIVE RuleListsOfLen(_)
RuleListsOfLen(n) ==
    IF n = 0 THEN {<<>>}
    ELSE {Append(l, r) : l \in RuleListsOfLen(n - 1), r \in OpeningRules}

RuleLists == UNION {RuleListsOfLen(n) : n \in 0..MaxRules}

InitResolve ==
    /\ config = [hidden_apps |-> {}, hidden_profiles |-> {1},
                 profile_order |-> <<>>]
    /\ LET generated == generate_all_browser_profiles(config, installed_profiles)
       IN /\ visible_browser_profiles = generated.visible
          /\ hidden_browser_profiles = generated.hidden
          /\ ui_browsers = generated.visible
    /\ opening_rules \in RuleLists
    /\ default_profile \in {None} \cup {Some(t) : t \in Targets}
    /\ status = "running"
    /\ last_msg = Msg("none", FALSE, FALSE)
    /\ request = NoRequest
    /\ resolved = None
    /\ launched = None
    /\ last_args = NoArgs
    /\ command_request = NoCommandRequest
    /\ command = None

\* open_link_if_matching_rule, called with the URL the program was started with
OpenLinkIfMatchingRule ==
    /\ status = "running"
    /\ last_args' = NoArgs
    /\ UNCHANGED command_vars
    /\ \E source_app_maybe \in {None} \cup {Some(a) : a \in SourceApps},
          url \in Urls :
          LET url_open_context == [cleaned_url |-> url,
                                   source_app_maybe |-> source_app_maybe]
          IN /\ request' = url_open_context
             /\ resolved' = get_rule_for_source_app_and_url(
                                opening_rules, default_profile, url_open_context)
             /\ launched' = dispatch(opening_rules, default_profile,
                                     visible_browser_profiles,
                                     hidden_browser_profiles, url_open_context)
             /\ last_msg' = Msg("OpenLinkIfMatchingRule",
                                open_link_if_matching_rule(
                                    opening_rules, default_profile,
                                    visible_browser_profiles,
                                    hidden_browser_profiles, url_open_context),
                                TRUE)
    /\ UNCHANGED <<profile_vars, rule_vars, status>>

NextResolve ==
    \/ OpenLinkIfMatchingRule
    \/ LinkOpenedFromBundle

SpecResolve == InitResolve /\ [][NextResolve]_vars

\* --------------------------------------- the command builder's specification
\* create_command called once, with every request of CommandRequests.
InitCommand ==
    /\ InitProfiles
    /\ config = [hidden_apps |-> {}, hidden_profiles |-> {},
                 profile_order |-> <<>>]

CreateCommand ==
    /\ status = "running"
    /\ last_msg.kind = "none"
    /\ \E r \in CommandRequests :
          LET built == create_command(r.target_os, r.browser,
                                      r.common_browser_profile, r.url,
                                      r.incognito_mode)
          IN /\ command_request' = r
             /\ command' = built
             /\ status' = IF is_none(built) THEN "panicked" ELSE status
             /\ last_msg' = Msg("create_command", is_some(built), TRUE)
    /\ UNCHANGED <<profile_vars, rule_vars, dispatch_vars, last_args>>

NextCommand ==
    \/ CreateCommand

SpecCommand == InitCommand /\ [][NextCommand]_vars

\* ------------------------------------------------ the sort's specification
\* sort_browser_profiles called once, on every sequence of distinct profiles
\* (the discovered ones and one more) under every ranking of the discovered
\* profiles' ids.
SortInputs == Orders(ProfileIds \cup {UnknownId})

InitSort ==
    /\ visible_browser_profiles \in SortInputs
    /\ hidden_browser_profiles = <<>>
    /\ config \in [hidden_apps : {{}}, hidden_profiles : {{}},
                   profile_order : Orders(ProfileIds)]
    /\ ui_browsers = visible_browser_profiles
    /\ opening_rules = <<>>
    /\ default_profile = None
    /\ status = "running"
    /\ last_msg = Msg("none", FALSE, FALSE)
    /\ request = NoRequest
    /\ resolved = None
    /\ launched = None
    /\ last_args = NoArgs
    /\ command_request = NoCommandRequest
    /\ command = None

SortBrowserProfiles ==
    /\ status = "running"
    /\ last_msg.kind = "none"
    /\ visible_browser_profiles'
          = sort_browser_profiles(visible_browser_profiles, config.profile_order)
    /\ ui_browsers' = visible_browser_profiles'
    /\ last_msg' = Msg("sort_browser_profiles", TRUE, TRUE)
    /\ UNCHANGED <<hidden_browser_profiles, config, rule_vars, status,
                   dispatch_vars, last_args, command_vars>>

NextSort ==
    \/ SortBrowserProfiles

SpecSort == InitSort /\ [][NextSort]_vars

\* ------------------------------------------ the rule edits' specification
\* The message loop started without rules and default and fed
\* LinkOpenedFromBundle, SaveConfigRules, SaveConfigDefaultOpener,
\* HideAppProfile and RestoreAppProfile messages, with
\* open_link_if_matching_rule called on the loop's rules and profiles; the saved rule lists
\* include two that hold the same rules in opposite order.
EditedRuleLists ==
    LET filtered == [source_app |-> Some("A"), url_pattern |-> None,
                     opener |-> Some([profile |-> 1, incognito |-> TRUE])]
        catch_all == [source_app |-> None, url_pattern |-> None,
                      opener |-> Some([profile |-> UnknownId, incognito |-> TRUE])]
    IN {<<>>, <<filtered>>, <<filtered, catch_all>>, <<catch_all, filtered>>}

InitRules ==
    /\ InitResolve
    /\ opening_rules = <<>>
    /\ default_profile = None

SaveConfigRulesEdited == SaveConfigRulesOf(EditedRuleLists)

NextRules ==
    \/ LinkOpenedFromBundle
    \/ OpenLinkIfMatchingRule
    \/ SaveConfigRulesEdited
    \/ SaveConfigDefaultOpener
    \/ HideAppProfile
    \/ RestoreAppProfile

SpecRules == InitRules /\ [][NextRules]_vars

\* ------------------------------------------ the generation's specification
\* generate_all_browser_profiles called on every discovery list (the
\* profiles of an application follow each other, as the two nested loops
\* yield them) under every hidden-application set, hidden-profile set and
\* ranking of the configuration.
Discovered(installed) == [installed |-> installed]

DiscoveryLists ==
    {s \in Orders(ProfileIds) :
        \A i, j, k \in 1..Len(s) :
           (i < k /\ k < j /\ get_unique_app_id(s[i]) = get_unique_app_id(s[j]))
              => get_unique_app_id(s[k]) = get_unique_app_id(s[i])}

GenerateConfigs ==
    [hidden_apps     : SUBSET {1, 2},
     hidden_profiles : SUBSET ProfileIds,
     profile_order   : Orders(PlainIds)]

InitGenerate ==
    /\ config \in GenerateConfigs
    /\ visible_browser_profiles = <<>>
    /\ hidden_browser_profiles = <<>>
    /\ ui_browsers = <<>>
    /\ opening_rules = <<>>
    /\ default_profile = None
    /\ status = "running"
    /\ last_msg = Msg("none", FALSE, FALSE)
    /\ request = NoRequest
    /\ resolved = None
    /\ launched = None
    /\ last_args = NoArgs
    /\ command_request = NoCommandRequest
    /\ command = None

GenerateAllBrowserProfiles ==
    /\ status = "running"
    /\ \E installed \in DiscoveryLists :
          LET generated == generate_all_browser_profiles(config, installed)
          IN /\ visible_browser_profiles' = generated.visible
             /\ hidden_browser_profiles' = generated.hidden
             /\ ui_browsers' = generated.visible
             /\ last_args' = Discovered(installed)
    /\ last_msg' = Msg("generate_all_browser_profiles", TRUE, TRUE)
    /\ UNCHANGED <<config, rule_vars, status, dispatch_vars, command_vars>>

NextGenerate ==
    \/ GenerateAllBrowserProfiles

SpecGenerate == InitGenerate /\ [][NextGenerate]_vars

\* ----------------------------------------------------------------- claims
\* index (1-based) of profile p in sequence s
IndexOf(s, p) == CHOOSE i \in 1..Len(s) : s[i] = p

\* every priority profile of s sits before every non-priority profile of s
PriorityFirst(s) ==
    \A i, j \in 1..Len(s) :
        has_priority_ordering(s[i]) /\ ~has_priority_ordering(s[j]) => i < j

Mutations == {"HideAppProfile", "HideAllProfiles", "RestoreAppProfile",
              "MoveAppProfile"}

\* C1: after any sequence of hide / hide-all / restore / move messages every
\* priority profile of the visible sequence precedes every non-priority one.
C1_PriorityProfilesFirst == PriorityFirst(visible_browser_profiles)

\* C2: the visible and the hidden sequence are disjoint, hold no profile
\* twice, and together hold exactly the discovered profiles.
C2_Partition ==
    /\ Range(visible_browser_profiles) \cap Range(hidden_browser_profiles) = {}
    /\ Range(visible_browser_profiles) \cup Range(hidden_browser_profiles)
          = Range(installed_profiles)
    /\ NoDup(visible_browser_profiles)
    /\ NoDup(hidden_browser_profiles)

\* a profile was hidden, others restored and moved, and both sequences are
\* still populated
C2_Witness ==
    /\ last_msg.kind = "RestoreAppProfile"
    /\ last_msg.acted
    /\ Len(hidden_browser_profiles) >= 1
    /\ Len(visible_browser_profiles) >= 2
    /\ visible_browser_profiles # generate_all_browser_profiles(
                                      config, installed_profiles).visible

\* C3: a move never reorders priority profiles: they keep their positions,
\* as a prefix of the visible sequence, across every MoveAppProfile.
C3_MoveKeepsPriorityPrefix ==
    [][(last_msg'.kind = "MoveAppProfile"
        /\ PriorityFirst(visible_browser_profiles))
       => /\ PriorityFirst(visible_browser_profiles')
          /\ Len(visible_browser_profiles') = Len(visible_browser_profiles)
          /\ \A k \in 1..Len(visible_browser_profiles) :
                has_priority_ordering(visible_browser_profiles[k])
                   => visible_browser_profiles'[k] = visible_browser_profiles[k]
      ]_vars

\* the last message resolved the request held in `request`
Resolved ==
    /\ last_msg.kind \in {"LinkOpenedFromBundle", "OpenLinkIfMatchingRule"}
    /\ last_msg.acted

Parsable == is_some(Url_from_str(request.cleaned_url))

\* both predicates hold for rule i of the current list and the request
BothHold(i) ==
    /\ url_matches(opening_rules[i], unwrap(Url_from_str(request.cleaned_url)))
    /\ source_app_matches(opening_rules[i], request.source_app_maybe)

IsFirstMatch(i) == BothHold(i) /\ \A j \in 1..(i - 1) : ~BothHold(j)

NoMatch == \A i \in 1..Len(opening_rules) : ~BothHold(i)

\* C4: for a parsable URL resolution returns the target of the first rule
\* for which both predicates hold, and whatever rule follows that one makes
\* no difference to the result.
C4_FirstMatchWins ==
    (Resolved /\ Parsable) =>
        \A i \in 1..Len(opening_rules) :
            IsFirstMatch(i) =>
                /\ resolved = opening_rules[i].opener
                /\ \A r \in OpeningRules :
                      get_rule_for_source_app_and_url(
                          Append(SubSeq(opening_rules, 1, i), r),
                          default_profile, request) = resolved

\* two rules with different targets both match and the earlier one won
C4_Witness ==
    /\ Resolved /\ Parsable
    /\ \E i, j \in 1..Len(opening_rules) :
          /\ i < j /\ IsFirstMatch(i) /\ BothHold(j)
          /\ is_some(opening_rules[i].opener)
          /\ is_some(opening_rules[j].opener)
          /\ opening_rules[i].opener # opening_rules[j].opener
          /\ opening_rules[j].opener = default_profile
          /\ resolved = opening_rules[i].opener

\* C5: for a parsable URL, when no rule satisfies both predicates resolution
\* returns the default target (None when none is configured); when a rule
\* does, the default is not what decides the result.
C5_DefaultOnlyWhenNoMatch ==
    (Resolved /\ Parsable) =>
        /\ NoMatch => resolved = default_profile
        /\ \A i \in 1..Len(opening_rules) :
              (IsFirstMatch(i) /\ opening_rules[i].opener # default_profile)
                 => resolved # default_profile

\* a non-empty rule list none of whose rules matches, and a default
C5_Witness ==
    /\ Resolved /\ Parsable
    /\ Len(opening_rules) >= 1
    /\ NoMatch
    /\ is_some(default_profile)
    /\ resolved = default_profile

\* C6: when the URL cannot be parsed resolution returns None, whatever the
\* rules, the source app and the default, and no process is launched.
C6_UnparsableResolvesToNone ==
    (Resolved /\ ~Parsable) => (resolved = None /\ launched = None)

\* an unparsable URL met a rule without filters and a default whose profile
\* exists
C6_Witness ==
    /\ Resolved /\ ~Parsable
    /\ is_some(default_profile)
    /\ is_some(get_browser_profile_by_id(visible_browser_profiles,
                                         hidden_browser_profiles,
                                         unwrap(default_profile).profile))
    /\ \E i \in 1..Len(opening_rules) :
          /\ is_none(opening_rules[i].url_pattern)
          /\ is_none(opening_rules[i].source_app)
          /\ is_some(opening_rules[i].opener)
    /\ resolved = None
    /\ launched = None

\* C7: hiding a visible non-priority profile and restoring it leaves it
\* visible, not hidden, and after every non-priority profile that was
\* already visible, whatever the persisted ranking.
C7_HideRestoreRoundTrip ==
    \A id \in Range(visible_browser_profiles) :
        ~has_priority_ordering(id) =>
            LET after == restore_app_profile(hide_app_profile(State, id), id)
            IN /\ id \in Range(after.visible)
               /\ id \notin Range(after.hidden)
               /\ \A q \in Range(visible_browser_profiles) \ {id} :
                     ~has_priority_ordering(q)
                        => IndexOf(after.visible, q) < IndexOf(after.visible, id)

\* C8: no message that refers to a profile that is not present aborts the
\* message loop.
C8_LookupMissNeverFatal == status # "panicked"

\* C9: after every mutating message that changes the visible sequence the
\* persisted ranking is the list of the non-priority visible ids in order.
C9_RankingFollowsVisible ==
    [][(last_msg'.kind \in Mutations
        /\ visible_browser_profiles' # visible_browser_profiles)
       => config'.profile_order = profile_ids_sorted(visible_browser_profiles')
      ]_vars

\* C10: a hide or move whose id is not visible, and a restore whose id is not
\* hidden, changes neither sequence nor the persisted configuration.
C10_MissIsNoOp ==
    [][(last_msg'.kind \in {"HideAppProfile", "MoveAppProfile",
                            "RestoreAppProfile"}
        /\ ~last_msg'.found)
       => UNCHANGED <<visible_browser_profiles, hidden_browser_profiles,
                      config>>
      ]_vars

\* the sequence s without profile p, and its non-priority profiles, in order
Without(s, p) == SelectSeq(s, LAMBDA e : e # p)
NonPriority(s) == SelectSeq(s, LAMBDA e : ~has_priority_ordering(e))
Swap(s, i, j) == [s EXCEPT ![i] = s[j], ![j] = s[i]]

\* profile id is visible, non-priority, and has a non-priority profile before
\* it (UP, TOP) or after it (DOWN, BOTTOM)
InsideNonPriority(id, move_to) ==
    /\ id \in Range(visible_browser_profiles)
    /\ ~has_priority_ordering(id)
    /\ LET plain == NonPriority(visible_browser_profiles)
       IN IF move_to \in {"UP", "TOP"}
          THEN IndexOf(plain, id) > 1
          ELSE IndexOf(plain, id) < Len(plain)

\* the non-priority profiles after the move of id the claim describes
MovedNonPriority(id, move_to) ==
    LET plain == NonPriority(visible_browser_profiles)
        k == IndexOf(plain, id)
    IN CASE move_to = "UP" -> Swap(plain, k - 1, k)
         [] move_to = "DOWN" -> Swap(plain, k, k + 1)
         [] move_to = "TOP" -> <<id>> \o Without(plain, id)
         [] move_to = "BOTTOM" -> Append(Without(plain, id), id)

\* C11: a move of a non-priority visible profile that is not at the boundary
\* of the non-priority profiles exchanges it with its non-priority neighbour
\* (UP, DOWN) or puts it first / last among them (TOP, BOTTOM); the other
\* visible profiles keep their relative order, the visible set and the
\* hidden sequence stay as they were.
C11_MoveWithinNonPriority ==
    [][(last_msg'.kind = "MoveAppProfile"
        /\ InsideNonPriority(last_args'.id, last_args'.move_to))
       => /\ NonPriority(visible_browser_profiles')
                = MovedNonPriority(last_args'.id, last_args'.move_to)
          /\ Without(visible_browser_profiles', last_args'.id)
                = Without(visible_browser_profiles, last_args'.id)
          /\ Range(visible_browser_profiles') = Range(visible_browser_profiles)
          /\ hidden_browser_profiles' = hidden_browser_profiles
      ]_vars

\* the move of id is one of the boundary moves: UP or TOP on the first
\* non-priority visible profile, DOWN or BOTTOM on the last visible profile
BoundaryMove(id, move_to) ==
    /\ Len(visible_browser_profiles) >= 1
    /\ IF move_to \in {"UP", "TOP"}
       THEN /\ Len(NonPriority(visible_browser_profiles)) >= 1
            /\ id = NonPriority(visible_browser_profiles)[1]
       ELSE id = visible_browser_profiles[Len(visible_browser_profiles)]

\* C12: a boundary move changes neither the visible sequence, nor the hidden
\* sequence, nor the persisted ranking, and the loop keeps running.
C12_BoundaryMoveIsNoOp ==
    [][(last_msg'.kind = "MoveAppProfile"
        /\ BoundaryMove(last_args'.id, last_args'.move_to))
       => /\ UNCHANGED <<visible_browser_profiles, hidden_browser_profiles>>
          /\ config'.profile_order = config.profile_order
          /\ status' = "running"
      ]_vars

\* TOP was sent for the first non-priority profile, which stands behind a
\* priority profile and before another profile, while the persisted ranking
\* is not the visible order
C12_Witness ==
    /\ last_msg.kind = "MoveAppProfile"
    /\ last_args.move_to = "TOP"
    /\ Len(visible_browser_profiles) >= 3
    /\ has_priority_ordering(visible_browser_profiles[1])
    /\ last_args.id = visible_browser_profiles[2]
    /\ ~has_priority_ordering(last_args.id)
    /\ config.profile_order # NonPriority(visible_browser_profiles)
    /\ ~last_msg.acted

\* the ordering invariant of a sequence s under a ranking: priority profiles
\* first and, within the priority and within the non-priority profiles,
\* ranked ids in ranking order before the unranked ids
RankedOrder(s, ranking) ==
    /\ PriorityFirst(s)
    /\ \A i, j \in 1..Len(s) :
          (i < j /\ has_priority_ordering(s[i]) = has_priority_ordering(s[j]))
             => /\ s[j] \in Range(ranking) => s[i] \in Range(ranking)
                /\ (s[i] \in Range(ranking) /\ s[j] \in Range(ranking))
                      => IndexOf(ranking, s[i]) < IndexOf(ranking, s[j])

C14_HideAppendsToHidden ==
    [][(last_msg'.kind = "HideAppProfile"
        /\ last_args'.id \in Range(visible_browser_profiles))
       => /\ visible_browser_profiles'
                = Without(visible_browser_profiles, last_args'.id)
          /\ Len(visible_browser_profiles') = Len(visible_browser_profiles) - 1
          /\ hidden_browser_profiles'
                = Append(hidden_browser_profiles, last_args'.id)
      ]_vars

\* a visible profile was hidden after another one, and a profile stays
\* visible
C14_Witness ==
    /\ last_msg.kind = "HideAppProfile"
    /\ last_msg.acted
    /\ Len(hidden_browser_profiles) >= 2
    /\ hidden_browser_profiles[Len(hidden_browser_profiles)] = last_args.id
    /\ Len(visible_browser_profiles) >= 1
    /\ last_args.id \notin Range(visible_browser_profiles)

\* the profiles of sequence s that belong to application app_id, in order,
\* and the others
OfApp(s, app_id) == SelectSeq(s, LAMBDA e : get_unique_app_id(e) = app_id)
NotOfApp(s, app_id) == SelectSeq(s, LAMBDA e : get_unique_app_id(e) # app_id)

\* C15: hiding all profiles of an application moves exactly its visible
\* profiles to the end of the hidden sequence, in their visible order; the
\* other visible profiles keep their order and no visible profile of the
\* application is left.
C15_HideAllMovesTheApp ==
    [][last_msg'.kind = "HideAllProfiles"
       => /\ hidden_browser_profiles'
                = hidden_browser_profiles
                     \o OfApp(visible_browser_profiles, last_args'.id)
          /\ visible_browser_profiles'
                = NotOfApp(visible_browser_profiles, last_args'.id)
          /\ \A p \in Range(visible_browser_profiles') :
                get_unique_app_id(p) # last_args'.id
      ]_vars

\* the two profiles of an application were hidden together, behind a profile
\* hidden before, in the order they had
C15_Witness ==
    /\ last_msg.kind = "HideAllProfiles"
    /\ Len(hidden_browser_profiles) >= 3
    /\ LET n == Len(hidden_browser_profiles)
       IN /\ get_unique_app_id(hidden_browser_profiles[n]) = last_args.id
          /\ get_unique_app_id(hidden_browser_profiles[n - 1]) = last_args.id
          /\ get_unique_app_id(hidden_browser_profiles[n - 2]) # last_args.id
          /\ config.hidden_profiles
                = {hidden_browser_profiles[n], hidden_browser_profiles[n - 1]}

\* C16: sort_browser_profiles returns a permutation of its input with the
\* priority profiles first and, within the priority and within the
\* non-priority profiles, the ranked ids in ranking order followed by the
\* unranked ids in the order they had in the input.
C16_SortOrder ==
    [][last_msg'.kind = "sort_browser_profiles"
       => LET input == visible_browser_profiles
              ranking == config.profile_order
              output == visible_browser_profiles'
          IN /\ Len(output) = Len(input)
             /\ Range(output) = Range(input)
             /\ NoDup(output)
             /\ RankedOrder(output, ranking)
             /\ \A i, j \in 1..Len(output) :
                   (/\ i < j
                    /\ has_priority_ordering(output[i])
                          = has_priority_ordering(output[j])
                    /\ output[i] \notin Range(ranking)
                    /\ output[j] \notin Range(ranking))
                      => IndexOf(input, output[i]) < IndexOf(input, output[j])
      ]_vars

\* a sorted sequence with two ranked non-priority profiles in the ranking's
\* order, against the order of their ids, and a ranked priority profile
\* before an unranked one
C16_Witness ==
    /\ last_msg.kind = "sort_browser_profiles"
    /\ \E i, j \in 1..Len(visible_browser_profiles) :
          /\ i < j
          /\ ~has_priority_ordering(visible_browser_profiles[i])
          /\ ~has_priority_ordering(visible_browser_profiles[j])
          /\ {visible_browser_profiles[i], visible_browser_profiles[j]}
                \subseteq Range(config.profile_order)
          /\ visible_browser_profiles[i] > visible_browser_profiles[j]
    /\ \E i, j \in 1..Len(visible_browser_profiles) :
          /\ i < j
          /\ has_priority_ordering(visible_browser_profiles[i])
          /\ has_priority_ordering(visible_browser_profiles[j])
          /\ visible_browser_profiles[i] \in Range(config.profile_order)
          /\ visible_browser_profiles[j] \notin Range(config.profile_order)

\* rule i has no source-app filter, or the request carries a source app equal
\* to the filter
SourceAppAccepted(i) ==
    \/ is_none(opening_rules[i].source_app)
    \/ /\ is_some(request.source_app_maybe)
       /\ unwrap(request.source_app_maybe) = unwrap(opening_rules[i].source_app)

UrlAccepted(i) ==
    url_matches(opening_rules[i], unwrap(Url_from_str(request.cleaned_url)))

\* C17: the source-app predicate of a rule holds exactly when the rule has no
\* filter or the request carries a source app equal to the filter, and the
\* resolution goes by it: the first rule whose URL predicate holds and whose
\* filter is absent or equalled decides, a rule with a filter never decides
\* for a request without source app.
C17_SourceAppPredicate ==
    Resolved =>
        /\ \A i \in 1..Len(opening_rules) :
              source_app_matches(opening_rules[i], request.source_app_maybe)
                 <=> SourceAppAccepted(i)
        /\ Parsable =>
              /\ \A i \in 1..Len(opening_rules) :
                    (/\ UrlAccepted(i) /\ SourceAppAccepted(i)
                     /\ \A j \in 1..(i - 1) :
                           ~(UrlAccepted(j) /\ SourceAppAccepted(j)))
                       => resolved = opening_rules[i].opener
              /\ (\A i \in 1..Len(opening_rules) :
                     ~(UrlAccepted(i) /\ SourceAppAccepted(i)))
                    => resolved = default_profile

\* a request without source app passed over a rule with a filter whose URL
\* predicate held
C17_Witness ==
    /\ Resolved /\ Parsable
    /\ Len(opening_rules) >= 1
    /\ is_some(opening_rules[1].source_app)
    /\ UrlAccepted(1)
    /\ is_none(request.source_app_maybe)
    /\ is_some(opening_rules[1].opener)
    /\ resolved # opening_rules[1].opener

\* create_command returned a Command for the request held in command_request
Built == last_msg.kind = "create_command" /\ is_some(command)

BuiltArgs == unwrap(command).args

\* the URL the application's transform hook makes of the request's URL
BuiltUrl ==
    get_transformed_url(command_request.browser.supported_app,
                        command_request.common_browser_profile,
                        command_request.url)

\* number of arguments of the built Command equal to arg
Occurrences(arg) == Cardinality({i \in 1..Len(BuiltArgs) : BuiltArgs[i] = arg})

\* C18 as claimed: on macOS the Command holds -n exactly when the application
\* does not declare url-as-first-argument.
C18_NewInstanceUnlessUrlFirst ==
    (Built /\ command_request.target_os = "macos") =>
        ("-n" \in Range(BuiltArgs)
            <=> ~command_request.browser.supported_app.url_as_first_arg)

\* C18 as amended: on macOS the Command holds -n, once and directly after the
\* application id, exactly when the application declares
\* url-as-first-argument; an application that does not declare it gets no -n.
C18_NewInstanceWhenUrlFirst ==
    (Built /\ command_request.target_os = "macos") =>
        IF command_request.browser.supported_app.url_as_first_arg
        THEN /\ BuiltArgs[3] = "-n"
             /\ Occurrences("-n") = 1
        ELSE "-n" \notin Range(BuiltArgs)

\* a macOS Command for an application that declares url-as-first-argument,
\* with profile and incognito arguments between -n and the URL
C18_Witness ==
    /\ Built
    /\ command_request.target_os = "macos"
    /\ command_request.browser.supported_app.url_as_first_arg
    /\ command_request.incognito_mode
    /\ command_request.browser.supported_app.supports_incognito
    /\ command_request.common_browser_profile.profile_cli_arg_value # ""
    /\ BuiltArgs[3] = "-n"
    /\ Len(BuiltArgs) > 5

\* the caller asked for incognito and the application supports it
IncognitoWanted ==
    /\ command_request.incognito_mode
    /\ command_request.browser.supported_app.supports_incognito

IncognitoArgs == get_incognito_args(command_request.browser.supported_app)

\* C19: on macOS, Linux and Windows the application's incognito arguments
\* are in the Command, together and once, if and only if the caller asked for
\* incognito and the application supports it; otherwise none of them is.
C19_IncognitoOnlyWhenBoth ==
    Built =>
        IF IncognitoWanted
        THEN /\ \E k \in 1..Len(BuiltArgs) :
                   SubSeq(BuiltArgs, k, k + Len(IncognitoArgs) - 1)
                      = IncognitoArgs
             /\ \A i \in 1..Len(IncognitoArgs) :
                   Occurrences(IncognitoArgs[i]) = 1
        ELSE Range(IncognitoArgs) \cap Range(BuiltArgs) = {}

\* incognito was asked for an application without incognito support, on
\* Windows, and the Command holds the profile arguments and the URL only
C19_Witness ==
    /\ Built
    /\ command_request.target_os = "windows"
    /\ command_request.incognito_mode
    /\ ~command_request.browser.supported_app.supports_incognito
    /\ command_request.common_browser_profile.profile_cli_arg_value # ""
    /\ BuiltArgs = <<"--profile", "Work", BuiltUrl>>

\* the arguments of the stored command, and the places of its URL placeholders
Template == Tail(command_request.browser.command)
Placeholders == {i \in 1..Len(Template) : Template[i] \in {"%u", "%U"}}

\* C20: on Linux, when the stored command holds the URL placeholder the
\* transformed URL stands in the Command where the placeholder stood, the
\* other arguments of the stored command around it, and nowhere else; when
\* it holds none the transformed URL is in the Command once, as the last
\* argument.
C20_LinuxUrlPlacement ==
    (Built /\ command_request.target_os = "linux") =>
        IF Placeholders # {}
        THEN /\ \E k \in 0..(Len(BuiltArgs) - Len(Template)) :
                   \A i \in 1..Len(Template) :
                       BuiltArgs[k + i] = IF i \in Placeholders
                                          THEN BuiltUrl
                                          ELSE Template[i]
             /\ Occurrences(BuiltUrl) = Cardinality(Placeholders)
        ELSE /\ BuiltArgs[Len(BuiltArgs)] = BuiltUrl
             /\ Occurrences(BuiltUrl) = 1

\* a Linux Command from the stored command (app, --flag, %u), with incognito
\* arguments before and profile arguments after the stored arguments
C20_Witness ==
    /\ Built
    /\ command_request.target_os = "linux"
    /\ Template = <<"--flag", "%u">>
    /\ IncognitoWanted
    /\ command_request.browser.supported_app.rewrites_url
    /\ BuiltArgs = IncognitoArgs \o <<"--flag", RewrittenUrl, "--profile", "Work">>

\* the last message was LinkOpenedFromBundle, with the source app and URL
\* held in `request`
FromBundle == last_msg.kind = "LinkOpenedFromBundle"

\* what the handler may have done: nothing, or launched the profile of the
\* resolved target, which is one of the visible or hidden profiles
LaunchedResolvedOrNothing ==
    \/ launched = None
    \/ /\ is_some(resolved)
       /\ unwrap(launched).profile = unwrap(resolved).profile
       /\ unwrap(launched).profile
             \in Range(visible_browser_profiles)
                    \cup Range(hidden_browser_profiles)

\* C21 as claimed: whatever source app and URL a LinkOpenedFromBundle message
\* carries, the process and the loop go on: the handler launched the resolved
\* profile or did nothing, and the next message is processed.
C21_DispatchIsTotal ==
    FromBundle => (status = "running" /\ LaunchedResolvedOrNothing)

\* C21 as amended: the same for every source app but com.apple.Safari, for
\* which the handler exits the process.
C21_DispatchIsTotalButForSafari ==
    FromBundle =>
        IF request.source_app_maybe = Some(SafariBundleId)
        THEN status = "exited" /\ launched = None
        ELSE status = "running" /\ LaunchedResolvedOrNothing

\* a URL that cannot be parsed came from an application that a rule names,
\* with a default configured, and nothing was launched
C21_Witness ==
    /\ FromBundle
    /\ status = "running"
    /\ ~Parsable
    /\ is_some(default_profile)
    /\ Len(opening_rules) >= 1
    /\ opening_rules[1].source_app = request.source_app_maybe
    /\ launched = None

\* the profile-selecting arguments of the request's profile
ProfileArgs ==
    get_profile_args(command_request.browser.supported_app,
                     command_request.common_browser_profile.profile_cli_arg_value)

\* the incognito arguments the Command holds: all of them or none
IncludedIncognitoArgs == IF IncognitoWanted THEN IncognitoArgs ELSE <<>>

\* C22: on Linux the incognito arguments, when included, are the first
\* arguments of the Command, before every argument of the stored command, and
\* the profile arguments follow the stored command's arguments.
C22_LinuxArgumentOrder ==
    (Built /\ command_request.target_os = "linux") =>
        LET first == Len(IncludedIncognitoArgs)
            last == first + Len(Template)
        IN /\ Len(BuiltArgs) >= last + Len(ProfileArgs)
           /\ SubSeq(BuiltArgs, 1, first) = IncludedIncognitoArgs
           /\ \A i \in 1..Len(Template) :
                 BuiltArgs[first + i] = IF i \in Placeholders
                                        THEN BuiltUrl
                                        ELSE Template[i]
           /\ SubSeq(BuiltArgs, last + 1, last + Len(ProfileArgs)) = ProfileArgs

\* a Linux Command with incognito arguments, two stored arguments without
\* placeholder, and profile arguments
C22_Witness ==
    /\ Built
    /\ command_request.target_os = "linux"
    /\ IncognitoWanted
    /\ Template = <<"--flag", "--flag">>
    /\ BuiltArgs = IncognitoArgs
                      \o <<"--flag", "--flag", "--profile", "Work", BuiltUrl>>

\* C23: on Windows the Command is the stored program followed by the profile
\* arguments, the incognito arguments when they apply, and the transformed
\* URL, which is the last argument in every case.
C23_WindowsArgumentOrder ==
    (Built /\ command_request.target_os = "windows") =>
        /\ unwrap(command).program = Head(command_request.browser.command)
        /\ BuiltArgs = ProfileArgs \o IncludedIncognitoArgs \o <<BuiltUrl>>
        /\ BuiltArgs[Len(BuiltArgs)] = BuiltUrl

\* a Windows Command with profile and incognito arguments and a rewritten
\* URL, from a stored command that has arguments of its own
C23_Witness ==
    /\ Built
    /\ command_request.target_os = "windows"
    /\ IncognitoWanted
    /\ Len(Template) >= 1
    /\ command_request.browser.supported_app.rewrites_url
    /\ BuiltArgs = <<"--profile", "Work">> \o IncognitoArgs \o <<RewrittenUrl>>

\* the rule list is [(source A, pattern p -> P1), (no filter, no pattern -> P2)]
FilteredThenCatchAll ==
    /\ Len(opening_rules) = 2
    /\ opening_rules[1].source_app = Some("A")
    /\ is_some(opening_rules[1].url_pattern)
    /\ is_some(opening_rules[1].opener)
    /\ is_none(opening_rules[2].source_app)
    /\ is_none(opening_rules[2].url_pattern)
    /\ is_some(opening_rules[2].opener)

\* the request comes from source A and its URL matches the first rule's pattern
FromAMatchingP ==
    /\ request.source_app_maybe = Some("A")
    /\ glob_url_matches(unwrap(opening_rules[1].url_pattern),
                        unwrap(Url_from_str(request.cleaned_url)))

\* C24: a rule without URL pattern satisfies the URL predicate for every
\* parsable URL; with the rules [(source A, pattern p -> P1), (no filter, no
\* pattern -> P2)] and default P3 a request from A whose URL matches p
\* resolves to P1, every other request resolves to P2, and P3 is never the
\* result for a parsable URL.
C24_CatchAllRule ==
    (Resolved /\ Parsable) =>
        /\ \A i \in 1..Len(opening_rules) :
              is_none(opening_rules[i].url_pattern) => UrlAccepted(i)
        /\ FilteredThenCatchAll =>
              /\ resolved = IF FromAMatchingP THEN opening_rules[1].opener
                            ELSE opening_rules[2].opener
              /\ default_profile \notin {opening_rules[1].opener,
                                         opening_rules[2].opener}
                    => resolved # default_profile

\* a request from another source than A, for a URL that matches p, was
\* resolved to P2 while P1 and the default are another target
C24_Witness ==
    /\ Resolved /\ Parsable
    /\ FilteredThenCatchAll
    /\ is_some(request.source_app_maybe)
    /\ request.source_app_maybe # Some("A")
    /\ glob_url_matches(unwrap(opening_rules[1].url_pattern),
                        unwrap(Url_from_str(request.cleaned_url)))
    /\ opening_rules[1].opener # opening_rules[2].opener
    /\ default_profile = opening_rules[1].opener
    /\ resolved = opening_rules[2].opener

\* what resolving `request` against the loop's rule list and default yields:
\* None for an unparsable URL, else the target of the first rule both of
\* whose predicates hold, else the default
ExpectedResolution ==
    IF ~Parsable THEN None
    ELSE IF NoMatch THEN default_profile
    ELSE opening_rules[CHOOSE i \in 1..Len(opening_rules) : IsFirstMatch(i)].opener

\* C25: a resolution changes neither the rule list, nor the default, nor the
\* visible and hidden sequences, nor the persisted configuration, and its
\* result is a function of the rules, the default, the URL and the source
\* app alone, whatever messages were processed before.
C25_ResolutionIsStateless ==
    [][(last_msg'.kind = "LinkOpenedFromBundle" /\ last_msg'.acted)
       => /\ UNCHANGED <<opening_rules, default_profile,
                         visible_browser_profiles, hidden_browser_profiles,
                         config>>
          /\ resolved' = ExpectedResolution'
      ]_vars

\* a request was resolved to the default, past a rule that did not match,
\* after rules and default had been saved and a profile hidden
C25_Witness ==
    /\ Resolved /\ Parsable
    /\ Len(opening_rules) >= 1
    /\ NoMatch
    /\ is_some(default_profile)
    /\ resolved = default_profile
    /\ Len(hidden_browser_profiles) >= 2

\* C29: SaveConfigRules(R) makes R the loop's rule list and leaves the
\* default and both sequences alone; SaveConfigDefaultOpener(d) makes d the
\* default and leaves the rule list and both sequences alone; no other
\* message changes the rule list, and every LinkOpenedFromBundle is resolved
\* against the list as last saved, in its order.
C29_RuleEditsInQueueOrder ==
    [][/\ last_msg'.kind = "SaveConfigRules"
            => /\ opening_rules' = last_args'.saved
               /\ UNCHANGED <<default_profile, visible_browser_profiles,
                              hidden_browser_profiles>>
       /\ last_msg'.kind = "SaveConfigDefaultOpener"
            => /\ default_profile' = last_args'.saved
               /\ UNCHANGED <<opening_rules, visible_browser_profiles,
                              hidden_browser_profiles>>
       /\ last_msg'.kind # "SaveConfigRules"
            => opening_rules' = opening_rules
       /\ (last_msg'.kind = "LinkOpenedFromBundle" /\ last_msg'.acted)
            => resolved' = ExpectedResolution'
      ]_vars

\* after two rules had been saved, the catch-all rule first, a request from
\* the source the second rule names was resolved to the first rule's target
C29_Witness ==
    /\ Resolved /\ Parsable
    /\ Len(opening_rules) = 2
    /\ BothHold(1) /\ BothHold(2)
    /\ is_some(opening_rules[2].source_app)
    /\ opening_rules[1].opener # opening_rules[2].opener
    /\ resolved = opening_rules[1].opener
    /\ is_some(default_profile)

\* rule i carries a URL pattern that cannot be parsed
IllFormed(i) ==
    /\ is_some(opening_rules[i].url_pattern)
    /\ ~unwrap(opening_rules[i].url_pattern).well_formed

WellFormedRule(r) ==
    is_none(r.url_pattern) \/ unwrap(r.url_pattern).well_formed

Generated == last_msg.kind = "generate_all_browser_profiles"

\* the configuration hides profile p
HiddenByConfig(p) ==
    \/ get_unique_app_id(p) \in config.hidden_apps
    \/ p \in config.hidden_profiles

ShownByConfig(p) == ~HiddenByConfig(p)

\* C27: generation puts a discovered profile in the hidden sequence exactly
\* when its application id is in the hidden-application set or its id is in
\* the hidden-profile set, and in the visible sequence otherwise; the hidden
\* profiles keep the discovery order and the visible sequence is the sort of
\* the visible profiles in discovery order under the configured ranking.
C27_GenerationFromConfig ==
    Generated =>
        LET installed == last_args.installed
        IN /\ \A p \in Range(installed) :
                 /\ p \in Range(hidden_browser_profiles) <=> HiddenByConfig(p)
                 /\ p \in Range(visible_browser_profiles) <=> ~HiddenByConfig(p)
           /\ Len(hidden_browser_profiles) + Len(visible_browser_profiles)
                 = Len(installed)
           /\ Range(hidden_browser_profiles) \cup Range(visible_browser_profiles)
                 \subseteq Range(installed)
           /\ \A i, j \in 1..Len(hidden_browser_profiles) :
                 i < j => IndexOf(installed, hidden_browser_profiles[i])
                            < IndexOf(installed, hidden_browser_profiles[j])
           /\ visible_browser_profiles
                 = sort_browser_profiles(SelectSeq(installed, ShownByConfig),
                                         config.profile_order)

\* a generation that hid one profile for its application and another, found
\* after it, for its own id, and left a third one visible
C27_Witness ==
    /\ Generated
    /\ Len(hidden_browser_profiles) = 2
    /\ hidden_browser_profiles[1] \notin config.hidden_profiles
    /\ get_unique_app_id(hidden_browser_profiles[1]) \in config.hidden_apps
    /\ hidden_browser_profiles[2] \in config.hidden_profiles
    /\ get_unique_app_id(hidden_browser_profiles[2]) \notin config.hidden_apps
    /\ hidden_browser_profiles[1] > hidden_browser_profiles[2]
    /\ Len(visible_browser_profiles) >= 1

Dispatched ==
    last_msg.kind \in {"LinkOpenedFromBundle", "OpenLinkIfMatchingRule"}

\* the resolution yielded a target whose profile id is the unique id of a
\* visible or of a hidden profile
TargetKnown ==
    /\ is_some(resolved)
    /\ unwrap(resolved).profile
          \in Range(visible_browser_profiles) \cup Range(hidden_browser_profiles)

\* C28: open_link_if_matching_rule and the LinkOpenedFromBundle handler
\* launch a process exactly when the resolution yielded a target whose
\* profile id is the unique id of a visible or hidden profile, and
\* open_link_if_matching_rule then returns true; the process is that of the
\* visible profile with the id, else of the hidden one, with the target's
\* incognito flag; otherwise nothing is launched and the result is false.
C28_OneLaunchPerRequest ==
    Dispatched =>
        /\ is_some(launched) <=> TargetKnown
        /\ last_msg.found <=> TargetKnown
        /\ TargetKnown =>
              LET id == unwrap(resolved).profile
                  profile == IF id \in Range(visible_browser_profiles)
                             THEN visible_browser_profiles[
                                      IndexOf(visible_browser_profiles, id)]
                             ELSE hidden_browser_profiles[
                                      IndexOf(hidden_browser_profiles, id)]
              IN launched = Some([profile   |-> profile,
                                  incognito |-> unwrap(resolved).incognito])

\* open_link_if_matching_rule returned true for an incognito target whose
\* profile is hidden while other profiles are visible
C28_Witness ==
    /\ last_msg.kind = "OpenLinkIfMatchingRule"
    /\ last_msg.found
    /\ is_some(launched)
    /\ unwrap(launched).incognito
    /\ unwrap(launched).profile \in Range(hidden_browser_profiles)
    /\ unwrap(launched).profile \notin Range(visible_browser_profiles)
    /\ Len(visible_browser_profiles) >= 1

\* C30: after every message the visible list last sent to the UI is the
\* loop's visible sequence, so an index of the displayed list names the same
\* profile in the loop's sequence.
C30_UiListIsLoopList ==
    /\ Len(ui_browsers) = Len(visible_browser_profiles)
    /\ \A profile_index \in 0..(Len(ui_browsers) - 1) :
          ui_browsers[profile_index + 1]
             = visible_browser_profiles[profile_index + 1]

\* C31: when a default target is configured and the URL is parsable,
\* resolution returns some target, whatever the rule list, lists with a
\* matching rule that carries no target included.
C31_DefaultGuaranteesTarget ==
    (Resolved /\ Parsable /\ is_some(default_profile)) => is_some(resolved)

====
